---------------------------- MODULE Spec2Model ----------------------------
(***************************************************************************)
(* Model of scripts/generate_fixtures.py: the minimal OLE2 compound-file   *)
(* writer (build_ole2) and the SummaryInformation property-set encoder     *)
(* (make_summary_stream), with the two legacy fixture generators that call *)
(* them.  Bytes are integers 0..255 and a bytes object is a sequence of    *)
(* them.  Text is a sequence of Unicode code points.                       *)
(***************************************************************************)
EXTENDS Integers, Sequences, FiniteSets, TLC

VARIABLES pc,          \* "idle" before a top-level call, "returned" after it
          call,        \* the function that was called
          streams,     \* the stream list handed to build_ole2
          page_count,  \* arguments of make_summary_stream
          title,
          author,
          result       \* what the call produced: bytes or a raised exception

vars == <<pc, call, streams, page_count, title, author, result>>

-----------------------------------------------------------------------------
(* Bounds of the model *)

MaxStreams == 4

-----------------------------------------------------------------------------
(* Module constants, lines 18-22.  A 32-bit word w is held as the integer  *)
(* of -2^31 .. 2^31-1 congruent to w modulo 2^32, so 0xFFFFFFFF is -1.     *)

FREESECT   == -1
ENDOFCHAIN == -2
FATSECT    == -3
NOSTREAM   == -1
SECTOR     == 512

MINIFAT_SECTOR == 2
DATA_START     == 3

FAT_ENTRIES == 128

-----------------------------------------------------------------------------
(* bytes helpers: struct.pack, ljust, join *)

max(a, b) == IF a >= b THEN a ELSE b

Zeros(n) == [k \in 1..n |-> 0]

pack_B(v) == <<v % 256>>
pack_H(v) == <<v % 256, (v \div 256) % 256>>
pack_I(v) == <<v % 256, (v \div 256) % 256, (v \div 65536) % 256,
               (v \div 16777216) % 256>>
\* struct.pack("<Q", v) for 0 <= v < 2^31
pack_Q(v) == pack_I(v) \o pack_I(0)

\* struct.pack("<i", v): two's complement of an int32
pack_i(v) == pack_I(v)

\* bytes.ljust(width, b"\x00"): never truncates
ljust(b, width) == IF Len(b) >= width THEN b ELSE b \o Zeros(width - Len(b))

RECURSIVE join(_)
join(parts) == IF parts = <<>> THEN <<>> ELSE Head(parts) \o join(Tail(parts))

\* str.encode("utf-16-le") for text without lone surrogates
utf16_unit(c) == <<c % 256, c \div 256>>
utf16_char(c) ==
    IF c < 65536 THEN utf16_unit(c)
    ELSE utf16_unit(55296 + ((c - 65536) \div 1024))
         \o utf16_unit(56320 + ((c - 65536) % 1024))

RECURSIVE utf16le(_)
utf16le(text) ==
    IF text = <<>> THEN <<>> ELSE utf16_char(Head(text)) \o utf16le(Tail(text))

-----------------------------------------------------------------------------
(* A payload (the data_bytes of a stream) is either literal bytes or a     *)
(* described input of len bytes whose k-th byte (from 0) is non-zero and   *)
(* depends on k and on a seed.                                             *)

PatternByte(seed, k) == ((seed + k) % 251) + 1

len(data) == IF data.lit THEN Len(data.bytes) ELSE data.len

bytes_of(data) ==
    IF data.lit THEN data.bytes
    ELSE [k \in 1..data.len |-> PatternByte(data.seed, k - 1)]

Literal(b) == [lit |-> TRUE, bytes |-> b]
Pattern(n, seed) == [lit |-> FALSE, len |-> n, seed |-> seed]

-----------------------------------------------------------------------------
(* _dir_entry, lines 25-46.  The entry bytes; the assertion of line 45 is  *)
(* dir_entry_assert.                                                       *)

_dir_entry(name, obj_type, start, size, child, left, right) ==
    LET name_u     == utf16le(name)
        name_len   == Len(name_u) + 2
        name_field == ljust(name_u \o <<0, 0>>, 64)
    IN  name_field
        \o pack_H(name_len)
        \o pack_B(obj_type)
        \o pack_B(1)
        \o pack_I(left)
        \o pack_I(right)
        \o pack_I(child)
        \o Zeros(16)
        \o pack_I(0)
        \o pack_Q(0)
        \o pack_Q(0)
        \o pack_I(start)
        \o pack_I(size)
        \o pack_I(0)

dir_entry_assert(e) == Len(e) = 128

-----------------------------------------------------------------------------
(* build_ole2, lines 49-127 *)

\* max(1, -(-len(data) // SECTOR)), lines 69 and 77
num_sectors(data) == max(1, 0 - ((0 - len(data)) \div SECTOR))

\* lines 65-69: the start sector of every stream
RECURSIVE sector_starts_from(_, _, _)
sector_starts_from(strs, i, cur) ==
    IF i > Len(strs) THEN <<>>
    ELSE <<cur>> \o sector_starts_from(strs, i + 1, cur + num_sectors(strs[i].data))

sector_starts(strs) == sector_starts_from(strs, 1, DATA_START)

\* line 80 with the end of the chain tested one sector late
fat_link_late_end(s, j, n) == IF j < n THEN s + j + 1 ELSE ENDOFCHAIN

\* line 80: the value stored at fat[s + j]
fat_link(s, j, n) == IF j < n - 1 THEN s + j + 1 ELSE ENDOFCHAIN

\* lines 79-80 taking index 128 for the last entry of the list
fat_chain_one_past(f, s, n) ==
    IF f.err THEN f
    ELSE IF s + n - 1 > FAT_ENTRIES THEN [err |-> TRUE, fat |-> f.fat]
    ELSE [err |-> FALSE,
          fat |-> [k \in 0..(FAT_ENTRIES - 1) |->
                      IF k >= s /\ k < s + n THEN fat_link(s, k - s, n)
                      ELSE f.fat[k]]]

\* lines 79-80: for j in range(n): fat[s + j] = ...  The loop writes the
\* entries s .. s+n-1 in turn and raises IndexError at the first one past the
\* end of the list.
fat_chain(f, s, n) ==
    IF f.err THEN f
    ELSE IF s + n - 1 >= FAT_ENTRIES THEN [err |-> TRUE, fat |-> f.fat]
    ELSE [err |-> FALSE,
          fat |-> [k \in 0..(FAT_ENTRIES - 1) |->
                      IF k >= s /\ k < s + n THEN fat_link(s, k - s, n)
                      ELSE f.fat[k]]]

\* lines 76-80: the loop over the streams
RECURSIVE fat_streams(_, _, _, _)
fat_streams(f, strs, starts, i) ==
    IF f.err \/ i > Len(strs) THEN f
    ELSE fat_streams(fat_chain(f, starts[i], num_sectors(strs[i].data)),
                     strs, starts, i + 1)

\* lines 72-75
fat_reserved ==
    [k \in 0..(FAT_ENTRIES - 1) |->
        IF k = 0 THEN FATSECT
        ELSE IF k = 1 THEN ENDOFCHAIN
        ELSE IF k = MINIFAT_SECTOR THEN ENDOFCHAIN
        ELSE FREESECT]

\* lines 72-80
build_fat(strs) ==
    fat_streams([err |-> FALSE, fat |-> fat_reserved], strs, sector_starts(strs), 1)

\* struct.pack("<128I", *fat), lines 81 and 84
pack_128I(f) ==
    [k \in 1..(4 * FAT_ENTRIES) |-> pack_I(f[(k - 1) \div 4])[((k - 1) % 4) + 1]]

\* line 84 with a zero-filled sector instead of FREESECT entries
minifat_sector_zeroed == Zeros(SECTOR)

\* line 84
minifat_sector == pack_128I([k \in 0..(FAT_ENTRIES - 1) |-> FREESECT])

RootName == <<82, 111, 111, 116, 32, 69, 110, 116, 114, 121>>

\* lines 89-90
root_entry(n) ==
    _dir_entry(RootName, 5, ENDOFCHAIN, 0,
               IF n # 0 THEN 1 ELSE NOSTREAM, NOSTREAM, NOSTREAM)

\* line 93 with the sibling index counted from 0 instead of 1
right_link_from_zero(i, n) == IF i + 1 < n THEN i + 1 ELSE NOSTREAM

\* line 93, i counted from 0
right_link(i, n) == IF i + 1 < n THEN i + 2 ELSE NOSTREAM

\* lines 92-95, i counted from 0
stream_entry(strs, starts, i) ==
    _dir_entry(strs[i + 1].name, 2, starts[i + 1], len(strs[i + 1].data),
               NOSTREAM, NOSTREAM, right_link(i, Len(strs)))

\* lines 96-97
RECURSIVE pad_entries(_)
pad_entries(entries) ==
    IF Len(entries) < 4 THEN pad_entries(Append(entries, Zeros(128)))
    ELSE entries

\* lines 88-97: the list of entries
dir_entries(strs) ==
    pad_entries(<<root_entry(Len(strs))>>
                \o [i \in 1..Len(strs) |-> stream_entry(strs, sector_starts(strs), i - 1)])

\* line 99 testing for at least one sector instead of exactly one
dir_sector_assert_at_least(dir_sector) == Len(dir_sector) >= SECTOR

\* line 99
dir_sector_assert(dir_sector) == Len(dir_sector) = SECTOR

\* b * n for bytes b
repeat(b, n) == [k \in 1..(n * Len(b)) |-> b[((k - 1) % Len(b)) + 1]]

\* lines 102-118
header ==
    <<208, 207, 17, 224, 161, 177, 26, 225>>
    \o Zeros(16)
    \o pack_H(62) \o pack_H(3)
    \o pack_H(65534)
    \o pack_H(9) \o pack_H(6)
    \o Zeros(6)
    \o pack_I(0)
    \o pack_I(1)
    \o pack_I(1)
    \o pack_I(0)
    \o pack_I(4096)
    \o pack_I(MINIFAT_SECTOR)
    \o pack_I(1)
    \o pack_I(ENDOFCHAIN)
    \o pack_I(0)
    \o pack_I(0)
    \o repeat(pack_I(FREESECT), 108)

\* line 119
header_assert(hdr) == Len(hdr) = SECTOR

\* lines 124-125 padding every payload to the sectors allocated for it
padded_to_allocation(data) ==
    bytes_of(data) \o Zeros(num_sectors(data) * SECTOR - len(data))

\* lines 124-125: one payload padded to a sector boundary
padded(data) ==
    LET rem == len(data) % SECTOR
    IN  bytes_of(data) \o (IF rem # 0 THEN Zeros(SECTOR - rem) ELSE <<>>)

\* lines 122-125
RECURSIVE body_from(_, _)
body_from(strs, i) ==
    IF i > Len(strs) THEN <<>>
    ELSE padded(strs[i].data) \o body_from(strs, i + 1)

Bytes(b) == [kind |-> "bytes", value |-> b, line |-> 0]
Raise(exc, line) == [kind |-> exc, value |-> <<>>, line |-> line]

build_ole2(strs) ==
    LET f          == build_fat(strs)
        entries    == dir_entries(strs)
        dir_sector == join(entries)
    IN  IF f.err THEN Raise("IndexError", 80)
        ELSE IF \E i \in 1..(Len(strs) + 1) : ~dir_entry_assert(entries[i])
             THEN Raise("AssertionError", 45)
        ELSE IF ~dir_sector_assert(dir_sector) THEN Raise("AssertionError", 99)
        ELSE IF ~header_assert(header) THEN Raise("AssertionError", 119)
        ELSE Bytes(header \o pack_128I(f.fat) \o dir_sector \o minifat_sector
                   \o body_from(strs, 1))

-----------------------------------------------------------------------------
(* SummaryInformation property set, lines 130-199 *)

VT_I4    == 3
VT_LPSTR == 30

_FMTID_SUMMARY ==
    <<224, 133, 159, 242, 249, 79, 104, 16, 171, 145, 8, 0, 43, 39, 179, 217>>

SECTION_OFFSET == 48

\* str.encode("latin-1", errors="replace") of one character
latin1_replace(c) == IF c < 256 THEN c ELSE 63

encode_latin1(text) == [k \in 1..Len(text) |-> latin1_replace(text[k])]

\* lines 150-151
_prop_i4(pid, value) ==
    [pid |-> pid, val |-> pack_H(VT_I4) \o pack_i(value)]

\* lines 155-157: the encoded text, its null and the padding
prop_str_data(text) ==
    LET data == encode_latin1(text) \o <<0>>
    IN  IF Len(data) % 4 # 0 THEN data \o Zeros(4 - (Len(data) % 4)) ELSE data

\* lines 154-158
_prop_str(pid, text) ==
    LET data == prop_str_data(text)
    IN  [pid |-> pid, val |-> pack_H(VT_LPSTR) \o pack_I(Len(data)) \o data]

\* lines 163-168
summary_props(pc_arg, title_arg, author_arg) ==
    (IF title_arg # <<>> THEN <<_prop_str(2, title_arg)>> ELSE <<>>)
    \o (IF author_arg # <<>> THEN <<_prop_str(4, author_arg)>> ELSE <<>>)
    \o <<_prop_i4(14, pc_arg)>>

\* line 179 without the rounding
align4_unrounded(off) == off

\* line 179: (off + 3) & ~3
align4(off) == ((off + 3) \div 4) * 4

\* lines 174-179: the offsets followed by the final value of off
RECURSIVE offsets_from(_, _, _)
offsets_from(props, i, off) ==
    IF i > Len(props) THEN <<off>>
    ELSE <<off>> \o offsets_from(props, i + 1, align4(off + Len(props[i].val)))

\* lines 171-172
header_size(props) == 8 + 8 * Len(props)

\* lines 182-183
RECURSIVE offset_table(_, _, _)
offset_table(props, offsets, i) ==
    IF i > Len(props) THEN <<>>
    ELSE pack_I(props[i].pid) \o pack_I(offsets[i])
         \o offset_table(props, offsets, i + 1)

\* lines 186-188 with no padding written between the values
value_pad_none(props, i) == <<>>

\* lines 186-188: the padding after value i (from 0)
value_pad(props, i) ==
    IF i < Len(props) - 1 THEN Zeros((4 - (Len(props[i + 1].val) % 4)) % 4)
    ELSE <<>>

\* lines 184-188
RECURSIVE values_from(_, _)
values_from(props, i) ==
    IF i >= Len(props) THEN <<>>
    ELSE props[i + 1].val \o value_pad(props, i) \o values_from(props, i + 1)

\* lines 170-188
prop_set(props) ==
    LET offs == offsets_from(props, 1, header_size(props))
    IN  pack_I(offs[Len(props) + 1]) \o pack_I(Len(props))
        \o offset_table(props, offs, 1)
        \o values_from(props, 0)

\* lines 191-196
stream_header ==
    pack_H(65534) \o pack_H(0)
    \o pack_I(131078)
    \o Zeros(16)
    \o pack_I(1)
    \o _FMTID_SUMMARY
    \o pack_I(SECTION_OFFSET)

\* line 197
stream_header_assert(stream) == Len(stream) = SECTION_OFFSET

\* lines 161-199
make_summary_stream(pc_arg, title_arg, author_arg) ==
    IF ~stream_header_assert(stream_header) THEN Raise("AssertionError", 197)
    ELSE Bytes(stream_header \o prop_set(summary_props(pc_arg, title_arg, author_arg)))

-----------------------------------------------------------------------------
(* The legacy fixture generators, lines 446-481 *)

LegacyTitle ==
    <<76, 101, 103, 97, 99, 121, 32, 87, 111, 114, 100, 32, 84, 101, 115, 116>>
LegacyAuthor ==
    <<68, 111, 99, 82, 101, 97, 100, 101, 114, 32, 84, 101, 115, 116, 115>>
SummaryName ==
    <<5, 83, 117, 109, 109, 97, 114, 121, 73, 110, 102, 111, 114, 109, 97, 116,
      105, 111, 110>>
PowerPointName ==
    <<80, 111, 119, 101, 114, 80, 111, 105, 110, 116, 32, 68, 111, 99, 117, 109,
      101, 110, 116>>

\* lines 453 and 476 padding to one sector instead of the cutoff
FixturePad_to_sector(b) == ljust(b, SECTOR)

\* lines 453 and 476: the width the fixtures pad their stream to
FixturePad(b) == ljust(b, 4096)

\* lines 447-454: the stream list make_doc_10page hands to build_ole2
doc_10page_streams ==
    <<[name |-> SummaryName,
       data |-> Literal(FixturePad(make_summary_stream(10, LegacyTitle, LegacyAuthor).value))]>>

\* lines 466-472: five empty SlideContainer records
slide_record == pack_H(15) \o pack_H(1000) \o pack_I(0)

\* lines 466-477: the stream list make_ppt_5slide hands to build_ole2
ppt_5slide_streams ==
    <<[name |-> PowerPointName, data |-> Literal(FixturePad(repeat(slide_record, 5)))]>>

-----------------------------------------------------------------------------
(* Inputs *)

NameOf31 == [k \in 1..31 |-> 78]
NameOf32 == [k \in 1..32 |-> 79]

StreamChoices ==
    { [name |-> <<69>>,          data |-> Pattern(0, 1)],
      [name |-> <<65>>,          data |-> Pattern(1, 2)],
      [name |-> <<66>>,          data |-> Pattern(512, 3)],
      [name |-> NameOf31,        data |-> Pattern(513, 4)],
      [name |-> PowerPointName,  data |-> Pattern(4096, 5)],
      [name |-> <<71>>,          data |-> Pattern(64000, 6)],
      [name |-> NameOf32,        data |-> Pattern(1, 7)] }

StreamLists == UNION { [1..n -> StreamChoices] : n \in 0..MaxStreams }

PageCounts == {0, 7, 10, 255, 65536, -1, 2147483647, -2147483647 - 1}

Titles == { <<>>, <<84>>, <<97, 98, 99>>, <<233>>, <<65, 0, 66>>, <<8364>>,
            LegacyTitle }

Authors == { <<>>, <<65>>, <<97, 98>>, LegacyAuthor }

-----------------------------------------------------------------------------
(* The state machine: one top-level call, then its return *)

NoResult == [kind |-> "none", value |-> <<>>, line |-> 0]

Init ==
    /\ pc = "idle"
    /\ call = "none"
    /\ streams = <<>>
    /\ page_count = 0
    /\ title = <<>>
    /\ author = <<>>
    /\ result = NoResult

BuildOle2 ==
    /\ pc = "idle"
    /\ \E s \in StreamLists :
          /\ streams' = s
          /\ result' = build_ole2(s)
    /\ call' = "build_ole2"
    /\ pc' = "returned"
    /\ UNCHANGED <<page_count, title, author>>

MakeSummaryStream ==
    /\ pc = "idle"
    /\ \E p \in PageCounts, t \in Titles, a \in Authors :
          /\ page_count' = p
          /\ title' = t
          /\ author' = a
          /\ result' = make_summary_stream(p, t, a)
    /\ call' = "make_summary_stream"
    /\ pc' = "returned"
    /\ UNCHANGED streams

MakeDoc10Page ==
    /\ pc = "idle"
    /\ page_count' = 10
    /\ title' = LegacyTitle
    /\ author' = LegacyAuthor
    /\ streams' = doc_10page_streams
    /\ result' = build_ole2(doc_10page_streams)
    /\ call' = "make_doc_10page"
    /\ pc' = "returned"

MakePpt5Slide ==
    /\ pc = "idle"
    /\ streams' = ppt_5slide_streams
    /\ result' = build_ole2(ppt_5slide_streams)
    /\ call' = "make_ppt_5slide"
    /\ pc' = "returned"
    /\ UNCHANGED <<page_count, title, author>>

Next ==
    \/ BuildOle2
    \/ MakeSummaryStream
    \/ MakeDoc10Page
    \/ MakePpt5Slide

Spec == Init /\ [][Next]_vars

-----------------------------------------------------------------------------
(* Reading an image back: what a consumer of the bytes sees *)

\* the byte at file offset off (from 0)
ByteAt(b, off) == b[off + 1]

\* the n bytes at file offset off, cut at the end of b as b[off:off+n] is
Slice(b, off, n) ==
    LET avail == IF Len(b) > off THEN Len(b) - off ELSE 0
    IN  [k \in 1..(IF n <= avail THEN n ELSE avail) |-> b[off + k]]

\* little-endian 16-bit and 32-bit fields; the 32-bit word in the signed range
U16At(b, off) == ByteAt(b, off) + 256 * ByteAt(b, off + 1)
WordAt(b, off) ==
    ByteAt(b, off) + 256 * ByteAt(b, off + 1) + 65536 * ByteAt(b, off + 2)
    + 16777216 * (IF ByteAt(b, off + 3) >= 128 THEN ByteAt(b, off + 3) - 256
                  ELSE ByteAt(b, off + 3))

\* sector k lies at file offset 512 * (k + 1)
SectorOffset(k) == SECTOR * (k + 1)

FatAt(img, k) == WordAt(img, SectorOffset(0) + 4 * k)

DirEntryOffset(i) == SectorOffset(1) + 128 * i
DirName(img, i)   == Slice(img, DirEntryOffset(i), 64)
DirNameLen(img, i) == U16At(img, DirEntryOffset(i) + 64)
DirType(img, i)   == ByteAt(img, DirEntryOffset(i) + 66)
DirLeft(img, i)   == WordAt(img, DirEntryOffset(i) + 68)
DirRight(img, i)  == WordAt(img, DirEntryOffset(i) + 72)
DirChild(img, i)  == WordAt(img, DirEntryOffset(i) + 76)
DirStart(img, i)  == WordAt(img, DirEntryOffset(i) + 116)
DirSize(img, i)   == WordAt(img, DirEntryOffset(i) + 120)

\* ceil(n / 512) and the sector count max(1, ceil(n / 512))
CeilSectors(n) == (n + SECTOR - 1) \div SECTOR
SectorCount(n) == IF CeilSectors(n) < 1 THEN 1 ELSE CeilSectors(n)

\* the start sector of stream i (from 1): 3, then previous start plus count
RECURSIVE ExpectedStart(_, _)
ExpectedStart(strs, i) ==
    IF i = 1 THEN 3
    ELSE ExpectedStart(strs, i - 1) + SectorCount(len(strs[i - 1].data))

\* the sectors of the file after the header: 3 reserved plus every stream's
TotalSectors(strs) ==
    IF strs = <<>> THEN 3
    ELSE ExpectedStart(strs, Len(strs)) + SectorCount(len(strs[Len(strs)].data))

RECURSIVE SumPaddedLen(_, _)
SumPaddedLen(strs, i) ==
    IF i > Len(strs) THEN 0
    ELSE CeilSectors(len(strs[i].data)) * SECTOR + SumPaddedLen(strs, i + 1)

BuildCalls == {"build_ole2", "make_doc_10page", "make_ppt_5slide"}

\* build_ole2 has returned an image for the stream list in streams
BuiltImage == pc = "returned" /\ call \in BuildCalls /\ result.kind = "bytes"

-----------------------------------------------------------------------------
(* C1 *)

PayloadAtRecordedSector(img, strs, i) ==
    LET start == DirStart(img, i)
    IN  /\ start = ExpectedStart(strs, i)
        /\ Slice(img, SectorOffset(start), len(strs[i].data)) = bytes_of(strs[i].data)

\* C1: for every input of 0 to 3 streams, zero-length payloads included, the
\* len(payload_i) bytes of the returned image that start at the sector recorded
\* in directory entry i (sector k at file offset 512*(k+1)) equal payload_i,
\* the recorded start being 3 for the first stream and the previous start plus
\* max(1, ceil(len/512)) for each next one.
C1_PayloadAtRecordedSector ==
    (BuiltImage /\ Len(streams) <= 3) =>
        \A i \in 1..Len(streams) : PayloadAtRecordedSector(result.value, streams, i)

-----------------------------------------------------------------------------
(* C2 *)

\* C2: for any input of 0 to 3 streams the length of the returned image is a
\* multiple of 512 and equals 4*512 plus the sum of ceil(len(payload_i)/512)*512
\* (2048 for no streams, 6144 for one stream of 4096 bytes).
C2_ImageLength ==
    (BuiltImage /\ Len(streams) <= 3) =>
        /\ Len(result.value) % 512 = 0
        /\ Len(result.value) = 4 * 512 + SumPaddedLen(streams, 1)
        /\ (streams = <<>> => Len(result.value) = 2048)
        /\ (Len(streams) = 1 /\ len(streams[1].data) = 4096
               => Len(result.value) = 6144)

\* an image of three streams, one of them empty and one not sector-aligned
C2_Witness ==
    /\ BuiltImage
    /\ Len(streams) = 3
    /\ \E i \in 1..3 : len(streams[i].data) = 0
    /\ \E i \in 1..3 : len(streams[i].data) % 512 # 0
    /\ \E i \in 1..3 : len(streams[i].data) = 4096

-----------------------------------------------------------------------------
(* C3 *)

\* the FAT chain of a stream of n sectors from sector s: s, s+1, .., s+n-1
ChainIsRun(img, s, n) ==
    /\ \A j \in 0..(n - 2) : FatAt(img, s + j) = s + j + 1
    /\ FatAt(img, s + n - 1) = ENDOFCHAIN

\* C3: in the FAT of a returned image, entries 0, 1, 2 are FATSECT, ENDOFCHAIN,
\* ENDOFCHAIN; the chain of every stream of n sectors from s visits exactly
\* s .. s+n-1 and then reaches ENDOFCHAIN; no chain entry points outside
\* [3, total_sectors); the chains of different streams share no sector; and
\* every entry beyond the highest used sector is FREESECT.
C3_FatChains ==
    BuiltImage =>
        LET img   == result.value
            N     == Len(streams)
            n(i)  == SectorCount(len(streams[i].data))
            s(i)  == DirStart(img, i)
            total == TotalSectors(streams)
        IN  /\ FatAt(img, 0) = FATSECT
            /\ FatAt(img, 1) = ENDOFCHAIN
            /\ FatAt(img, 2) = ENDOFCHAIN
            /\ \A i \in 1..N :
                  /\ s(i) >= 3 /\ s(i) + n(i) <= total /\ total <= FAT_ENTRIES
                  /\ ChainIsRun(img, s(i), n(i))
            /\ \A k \in 3..(FAT_ENTRIES - 1) :
                  FatAt(img, k) \notin {FREESECT, ENDOFCHAIN}
                      => FatAt(img, k) >= 3 /\ FatAt(img, k) < total
            /\ \A i, j \in 1..N :
                  i # j => (s(i) + n(i) <= s(j) \/ s(j) + n(j) <= s(i))
            /\ \A k \in total..(FAT_ENTRIES - 1) : FatAt(img, k) = FREESECT

\* an image with a multi-sector stream followed by a single-sector one
C3_Witness ==
    /\ BuiltImage
    /\ Len(streams) >= 2
    /\ SectorCount(len(streams[1].data)) >= 2
    /\ SectorCount(len(streams[2].data)) = 1
    /\ FatAt(result.value, 3) = 4

-----------------------------------------------------------------------------
(* C4 *)

\* the entries met from a link by following right links; fuel bounds the walk
RECURSIVE RightWalk(_, _, _)
RightWalk(img, link, fuel) ==
    IF link = NOSTREAM \/ fuel = 0 \/ link < 0 \/ link > 3 THEN <<>>
    ELSE <<link>> \o RightWalk(img, DirRight(img, link), fuel - 1)

\* where such a walk stops: the null marker, or a link it cannot follow
RECURSIVE RightWalkEnd(_, _, _)
RightWalkEnd(img, link, fuel) ==
    IF link = NOSTREAM \/ fuel = 0 \/ link < 0 \/ link > 3 THEN link
    ELSE RightWalkEnd(img, DirRight(img, link), fuel - 1)

\* C4: for 0 <= N <= 3 streams the directory sector has exactly 4 entries of
\* 128 bytes; entry 0 is the Root entry with child link 1 when N > 0 and the
\* null marker when N = 0; entry i (1 <= i <= N) describes the i-th stream
\* with left link null and right link i+1 when i < N, null when i = N; entries
\* N+1..3 are all-zero; so the walk from Root's child along right links visits
\* 1..N once each, in input order, and ends at the null marker.
C4_Directory ==
    (BuiltImage /\ Len(streams) <= 3) =>
        LET img == result.value
            N   == Len(streams)
        IN  /\ Len(dir_entries(streams)) = 4
            /\ \A i \in 1..4 : Len(dir_entries(streams)[i]) = 128
            /\ Slice(img, SectorOffset(1), SECTOR) = join(dir_entries(streams))
            /\ DirType(img, 0) = 5
            /\ DirName(img, 0) = ljust(utf16le(RootName) \o <<0, 0>>, 64)
            /\ DirChild(img, 0) = (IF N > 0 THEN 1 ELSE NOSTREAM)
            /\ \A i \in 1..N :
                  /\ DirType(img, i) = 2
                  /\ DirName(img, i) = ljust(utf16le(streams[i].name) \o <<0, 0>>, 64)
                  /\ DirNameLen(img, i) = 2 * Len(streams[i].name) + 2
                  /\ DirSize(img, i) = len(streams[i].data)
                  /\ DirStart(img, i) = ExpectedStart(streams, i)
                  /\ DirLeft(img, i) = NOSTREAM
                  /\ DirRight(img, i) = (IF i < N THEN i + 1 ELSE NOSTREAM)
            /\ \A i \in (N + 1)..3 : Slice(img, DirEntryOffset(i), 128) = Zeros(128)
            /\ RightWalk(img, DirChild(img, 0), 4) = [i \in 1..N |-> i]
            /\ RightWalkEnd(img, DirChild(img, 0), 4) = NOSTREAM

\* an image of two streams: a sibling link, a last entry and an unused entry
C4_Witness ==
    /\ BuiltImage
    /\ Len(streams) = 2
    /\ DirChild(result.value, 0) = 1
    /\ DirRight(result.value, 1) = 2
    /\ DirRight(result.value, 2) = NOSTREAM

-----------------------------------------------------------------------------
(* C5 *)

\* C5: in every image returned by build_ole2, for any stream list, each stream
\* directory entry records a size of at least 4096 (the mini-stream cutoff), a
\* shorter payload having been padded to 4096.
C5_EveryStreamAtLeastCutoff ==
    BuiltImage =>
        \A i \in 1..Len(streams) : DirSize(result.value, i) >= 4096

\* C5 as amended: build_ole2 records the size of each payload exactly as it
\* is given, without padding; the images of make_doc_10page and
\* make_ppt_5slide record size 4096 for their stream because these callers pad
\* the payload with zero bytes to 4096 before they call build_ole2.
C5_CallersPadToCutoff ==
    BuiltImage =>
        LET img == result.value
        IN  /\ \A i \in 1..Len(streams) : DirSize(img, i) = len(streams[i].data)
            /\ call = "make_ppt_5slide" =>
                  /\ Len(streams) = 1
                  /\ DirSize(img, 1) = 4096
                  /\ Slice(img, SectorOffset(DirStart(img, 1)), 40)
                        = repeat(slide_record, 5)
                  /\ Slice(img, SectorOffset(DirStart(img, 1)) + 40, 4096 - 40)
                        = Zeros(4096 - 40)
            /\ call = "make_doc_10page" =>
                  LET summary == make_summary_stream(10, LegacyTitle, LegacyAuthor).value
                  IN  /\ Len(streams) = 1
                      /\ DirSize(img, 1) = 4096
                      /\ Len(summary) < 4096
                      /\ Slice(img, SectorOffset(DirStart(img, 1)), Len(summary))
                            = summary
                      /\ Slice(img, SectorOffset(DirStart(img, 1)) + Len(summary),
                               4096 - Len(summary))
                            = Zeros(4096 - Len(summary))

\* the image make_ppt_5slide writes: 40 bytes of records stored as 4096
C5_Witness ==
    /\ BuiltImage
    /\ call = "make_ppt_5slide"
    /\ DirSize(result.value, 1) = 4096
    /\ Len(result.value) = 6144

-----------------------------------------------------------------------------
(* C6 *)

\* C6: every returned image, also for an empty stream list, holds at sector 2
\* (file offset 1536..2047) a Mini-FAT sector with no allocated mini-sector;
\* the header's first-Mini-FAT-sector field is 2 and its Mini-FAT sector count
\* is 1; FAT entry 2 is ENDOFCHAIN; and no stream's data occupies sector 2.
C6_MiniFatPresent ==
    BuiltImage =>
        LET img == result.value
        IN  /\ Len(img) >= 2048
            /\ SectorOffset(2) = 1536
            /\ \A k \in 0..(FAT_ENTRIES - 1) :
                  WordAt(img, SectorOffset(2) + 4 * k) = FREESECT
            /\ WordAt(img, 60) = 2
            /\ WordAt(img, 64) = 1
            /\ WordAt(img, 56) = 4096
            /\ FatAt(img, 2) = ENDOFCHAIN
            /\ \A k \in 0..(FAT_ENTRIES - 1) : FatAt(img, k) # 2
            /\ \A i \in 1..Len(streams) : DirStart(img, i) >= 3

\* the image of the empty stream list: the four fixed sectors and nothing else
C6_Witness ==
    /\ BuiltImage
    /\ streams = <<>>
    /\ Len(result.value) = 2048
    /\ WordAt(result.value, 1536) = FREESECT

-----------------------------------------------------------------------------
(* Reading a property-set stream back *)

SummaryReturned ==
    pc = "returned" /\ call = "make_summary_stream" /\ result.kind = "bytes"

\* the section: everything after the 48-byte stream header
Section(out) == SubSeq(out, SECTION_OFFSET + 1, Len(out))

PropCount(sec)   == WordAt(sec, 4)
PropId(sec, k)   == WordAt(sec, 8 + 8 * k)
PropOffset(sec, k) == WordAt(sec, 12 + 8 * k)

\* the offset of the value of property pid, or -1 when the table lacks it
OffsetOf(sec, pid) ==
    LET ks == {k \in 0..(PropCount(sec) - 1) : PropId(sec, k) = pid}
    IN  IF ks = {} THEN -1 ELSE PropOffset(sec, CHOOSE k \in ks : TRUE)

\* the bytes of raw before its first null
UpToNull(raw) ==
    LET nulls == {k \in 1..Len(raw) : raw[k] = 0}
    IN  IF nulls = {} THEN raw
        ELSE SubSeq(raw, 1, (CHOOSE k \in nulls : \A m \in nulls : k <= m) - 1)

\* property k (from 0) as a reader gets it: the type tag at its offset
ReadType(sec, k) ==
    LET off == PropOffset(sec, k)
    IN  IF off < 0 \/ off + 6 > Len(sec) THEN "truncated"
        ELSE IF U16At(sec, off) = VT_I4 THEN "i4"
        ELSE IF U16At(sec, off) = VT_LPSTR
        THEN IF WordAt(sec, off + 2) < 0 \/ off + 6 + WordAt(sec, off + 2) > Len(sec)
             THEN "truncated"
             ELSE "str"
        ELSE "unknown"

\* the value of an "i4" property: the int32 after the tag
ReadInt(sec, k) == WordAt(sec, PropOffset(sec, k) + 2)

\* the value of a "str" property: the counted bytes up to their first null
ReadString(sec, k) ==
    UpToNull(Slice(sec, PropOffset(sec, k) + 6, WordAt(sec, PropOffset(sec, k) + 2)))

\* the reader finds property pid exactly once, as a string of this text
ReadsString(sec, pid, text) ==
    /\ Cardinality({k \in 0..(PropCount(sec) - 1) : PropId(sec, k) = pid}) = 1
    /\ \A k \in 0..(PropCount(sec) - 1) :
          PropId(sec, k) = pid => ReadType(sec, k) = "str" /\ ReadString(sec, k) = text

\* the reader finds property pid exactly once, as this int32
ReadsInt(sec, pid, v) ==
    /\ Cardinality({k \in 0..(PropCount(sec) - 1) : PropId(sec, k) = pid}) = 1
    /\ \A k \in 0..(PropCount(sec) - 1) :
          PropId(sec, k) = pid => ReadType(sec, k) = "i4" /\ ReadInt(sec, k) = v

-----------------------------------------------------------------------------
(* C7 *)

\* C7: for every page_count, title and author the size declared in the first
\* 4 bytes of the section equals the true length of the section (all that
\* follows the 48-byte stream header); for page_count = 10 without title and
\* author the section holds exactly one property, ID 0x0E.
C7_DeclaredSizeIsTrueLength ==
    SummaryReturned =>
        LET sec == Section(result.value)
        IN  /\ WordAt(sec, 0) = Len(sec)
            /\ (page_count = 10 /\ title = <<>> /\ author = <<>>)
                  => (PropCount(sec) = 1 /\ PropId(sec, 0) = 14)

-----------------------------------------------------------------------------
(* C8 *)

\* a string value at offset off of the section, encoded as C8 describes
AnsiStringAt(sec, off, text) ==
    LET ansi == encode_latin1(text)
        used == 6 + Len(ansi) + 1
        pad  == (4 - (used % 4)) % 4
    IN  /\ off >= 0
        /\ U16At(sec, off) = 30
        /\ WordAt(sec, off + 2) = Len(ansi) + 1
        /\ Slice(sec, off + 6, Len(ansi)) = ansi
        /\ ByteAt(sec, off + 6 + Len(ansi)) = 0
        /\ Slice(sec, off + used, pad) = Zeros(pad)

\* C8: an ANSI string property is the type tag 0x001E, a 4-byte little-endian
\* count of the ANSI bytes of the text including the one terminating null, the
\* bytes and the null, then null padding to the next 4-byte boundary: for
\* every text the count field equals len(ANSI bytes of text) + 1.
C8_CountIsLenPlusOne ==
    SummaryReturned =>
        LET sec == Section(result.value)
        IN  /\ title # <<>> => AnsiStringAt(sec, OffsetOf(sec, 2), title)
            /\ author # <<>> => AnsiStringAt(sec, OffsetOf(sec, 4), author)

-----------------------------------------------------------------------------
(* C9 *)

\* text of Latin-1 characters other than NUL, not empty
AnsiText(text) == text # <<>> /\ \A k \in 1..Len(text) : text[k] \in 1..255

\* C9: for non-empty title and author of Latin-1 characters other than NUL
\* and any int32 page_count, reading the output back (skip the 48-byte header,
\* read the property count, follow each offset-table entry, read the type tag
\* and the value, a string being the counted bytes up to its first null)
\* yields exactly the properties 0x02 = title, 0x04 = author, 0x0E = page_count.
C9_RoundTrip ==
    (SummaryReturned /\ AnsiText(title) /\ AnsiText(author)) =>
        LET sec == Section(result.value)
        IN  /\ PropCount(sec) = 3
            /\ {PropId(sec, k) : k \in 0..(PropCount(sec) - 1)} = {2, 4, 14}
            /\ ReadsString(sec, 2, title)
            /\ ReadsString(sec, 4, author)
            /\ ReadsInt(sec, 14, page_count)

\* the stream of {title: "T", author: "A", page_count: 7}
C9_Witness ==
    /\ SummaryReturned
    /\ title = <<84>>
    /\ author = <<65>>
    /\ page_count = 7
    /\ PropCount(Section(result.value)) = 3

-----------------------------------------------------------------------------
(* C10 *)

\* C10: given more than 3 streams build_ole2 raises no error: the call
\* returns an image, whose directory sector holds more than 4 entries and so
\* is longer than one 512-byte sector.
C10_SilentOverflow ==
    (pc = "returned" /\ call = "build_ole2" /\ Len(streams) > 3) =>
        /\ result.kind = "bytes"
        /\ Len(result.value) > 4 * SECTOR + SumPaddedLen(streams, 1)

\* the stream list can be laid out: its sectors fit the FAT, its names an entry
FitsFatAndNames(strs) ==
    /\ TotalSectors(strs) <= FAT_ENTRIES
    /\ \A i \in 1..Len(strs) : Len(utf16le(strs[i].name)) + 2 <= 64

\* C10 as amended: build_ole2 has no check of the stream count, but given more
\* than 3 streams it returns no image: it raises.  When the streams fit the
\* FAT and their names fit an entry, the directory it has built holds
\* N + 1 > 4 entries (128 * (N + 1) bytes, more than one sector) and the
\* assertion of line 99 on that length fails with AssertionError; otherwise
\* the earlier IndexError of the FAT loop or AssertionError of _dir_entry is
\* raised.
C10_OverflowRaises ==
    (pc = "returned" /\ call = "build_ole2" /\ Len(streams) > 3) =>
        /\ result.kind \in {"AssertionError", "IndexError"}
        /\ result.value = <<>>
        /\ FitsFatAndNames(streams) =>
              /\ result.kind = "AssertionError"
              /\ result.line = 99
              /\ Len(dir_entries(streams)) = Len(streams) + 1
              /\ Len(join(dir_entries(streams))) = 128 * (Len(streams) + 1)
              /\ Len(join(dir_entries(streams))) > SECTOR

\* four small streams: the call ends in the assertion of line 99
C10_Witness ==
    /\ pc = "returned"
    /\ call = "build_ole2"
    /\ Len(streams) = 4
    /\ FitsFatAndNames(streams)
    /\ result.kind = "AssertionError"
    /\ result.line = 99

-----------------------------------------------------------------------------
(* C11 *)

\* the property IDs a call emits: title and author when not empty, page count
ExpectedIds(t, a) ==
    (IF t # <<>> THEN <<2>> ELSE <<>>) \o (IF a # <<>> THEN <<4>> ELSE <<>>) \o <<14>>

\* the type tag of a property: a string for title and author, else an int32
ExpectedTag(pid) == IF pid = 14 THEN VT_I4 ELSE VT_LPSTR

\* the bytes a value takes from its type tag on, as the section records them
ValueExtent(sec, off) ==
    IF U16At(sec, off) = VT_LPSTR THEN 6 + WordAt(sec, off + 2) ELSE 6

\* C11: the property count field equals the number of (ID, offset) pairs,
\* 1 plus one for a non-empty title plus one for a non-empty author; pairs and
\* values are in the order title (0x02), author (0x04), page count (0x0E);
\* every offset of the table is a multiple of 4 and is the position, from the
\* section start, where that property's 2-byte type tag begins; and no two
\* values overlap.
C11_OffsetTable ==
    SummaryReturned =>
        LET sec   == Section(result.value)
            ids   == ExpectedIds(title, author)
            n     == Len(ids)
            props == summary_props(page_count, title, author)
            off(k) == PropOffset(sec, k)
        IN  /\ PropCount(sec) = n
            /\ n = 1 + (IF title # <<>> THEN 1 ELSE 0) + (IF author # <<>> THEN 1 ELSE 0)
            /\ off(0) = 8 + 8 * n
            /\ \A k \in 0..(n - 1) :
                  /\ PropId(sec, k) = ids[k + 1]
                  /\ off(k) % 4 = 0
                  /\ off(k) >= 8 + 8 * n
                  /\ off(k) + 6 <= Len(sec)
                  /\ U16At(sec, off(k)) = ExpectedTag(ids[k + 1])
                  /\ off(k) + ValueExtent(sec, off(k)) <= Len(sec)
                  /\ Slice(sec, off(k), Len(props[k + 1].val)) = props[k + 1].val
                  /\ k < n - 1 => off(k) + ValueExtent(sec, off(k)) <= off(k + 1)
            /\ off(n - 1) + 6 = Len(sec)

\* a stream with all three properties, the title needing padding bytes
C11_Witness ==
    /\ SummaryReturned
    /\ title = <<84>>
    /\ author = LegacyAuthor
    /\ PropCount(Section(result.value)) = 3
    /\ PropOffset(Section(result.value), 1) = 44

-----------------------------------------------------------------------------
(* C12 *)

\* every name is a stream name: at most 31 UTF-16 code units
NamesFit(strs) == \A i \in 1..Len(strs) : Len(utf16le(strs[i].name)) <= 62

\* the data sectors the streams need together
DataSectors(strs) == TotalSectors(strs) - 3

\* C12: build_ole2 never returns an image whose streams need more sectors
\* than the one FAT sector describes: for at most 3 streams, needing at most
\* 125 data sectors (sectors 3..127) the call returns an image in which every
\* allocated sector has its own FAT entry; needing more than 125 it fails with
\* an error while filling the FAT and returns no image, truncated or not.
C12_FatCapacity ==
    /\ BuiltImage => DataSectors(streams) <= 125
    /\ (pc = "returned" /\ call = "build_ole2" /\ Len(streams) <= 3
          /\ NamesFit(streams)) =>
          IF DataSectors(streams) <= 125
          THEN /\ result.kind = "bytes"
               /\ \A k \in 3..(TotalSectors(streams) - 1) :
                     /\ k < FAT_ENTRIES
                     /\ FatAt(result.value, k) # FREESECT
               /\ Len(result.value) >= SectorOffset(3)
          ELSE /\ result.kind = "IndexError"
               /\ result.line = 80
               /\ result.value = <<>>

\* a full stream of 125 sectors and one more sector: the FAT loop fails
C12_Witness ==
    /\ pc = "returned"
    /\ call = "build_ole2"
    /\ Len(streams) = 2
    /\ NamesFit(streams)
    /\ DataSectors(streams) = 126
    /\ result.kind = "IndexError"

=============================================================================
